---------------------------- MODULE Spec2Model ----------------------------
(***************************************************************************)
(* A model of the BuiltWith API clients of src/builtwith_api.py:           *)
(* BuiltWithListsClient (get_tech_list, iterate_tech_list,                 *)
(* get_all_tech_list, parse_result) and BuiltWithKeywordsClient            *)
(* (get_keywords, get_keywords_batch), each on top of _make_request.       *)
(*                                                                         *)
(* Python values are modelled as follows.                                  *)
(*   - an Optional value is a box: None is << >>, a value v is <<v>>;      *)
(*   - a dict is a function whose DOMAIN is the set of its keys;           *)
(*   - a string that the code builds (TECH, COUNTRY, LOOKUP) is the        *)
(*     sequence of its pieces, so that replace and join are computed;      *)
(*   - a response body is the str that writes down a document (a JSON      *)
(*     object, a JSON array, or markup); response.text is that str and     *)
(*     response.json() is the document.                                    *)
(* The clients keep no state between calls (api_key and the session        *)
(* only), so a behaviour is one call: an atomic one, or a generator or a   *)
(* loop that advances one HTTP exchange per step.                          *)
(***************************************************************************)
EXTENDS Integers, Sequences, FiniteSets, TLC

VARIABLES
    op,         \* the operation the caller runs ("none" before the call)
    args,       \* its arguments
    wire,       \* the HTTP exchanges of the session, in order: [req, resp]
    outcome,    \* what the caller last got back: a value or an exception
    gen,        \* the frame of the iterate_tech_list generator
    delivered,  \* the pages the generator has yielded to its consumer
    pulls,      \* the next() calls made on the generator
    stops,      \* those of them answered by StopIteration
    loop        \* the frame of get_all_tech_list / get_keywords_batch

vars == <<op, args, wire, outcome, gen, delivered, pulls, stops, loop>>

---------------------------------------------------------------------------
\* Bounds of the model.

\* next() calls a consumer makes on one generator.
MaxPulls == 3
\* The largest max_pages argument tried (None is tried as well).
MaxCap == 2
\* The longest domain list handed to the keywords client.
MaxListLen == 18
\* The largest batch_size tried is MaxDomainsPerRequest + BatchSlack.
BatchSlack == 1
\* The HTTP calls one get_keywords_batch run may take.
MaxCalls == 3

\* Program constants.
MaxDomainsPerRequest == 16
RequestTimeout == 30
SecondsPerDay == 86400

---------------------------------------------------------------------------
\* Python values.

None == << >>
Some(v) == <<v>>

\* bool(s) of an Optional[str]
TruthyStr(s) == s # None /\ s[1] # ""
\* bool(n) of an Optional[int]
TruthyInt(n) == n # None /\ n[1] # 0
\* bool(q) of an Optional value that is a string of pieces or a list,
\* given as [islist, val]
TruthySeq(q) == q # None /\ q[1].val # << >>

\* d[k] = v on a dict
DictSet(d, k, v) == [x \in (DOMAIN d) \cup {k} |-> IF x = k THEN v ELSE d[x]]
\* d.get(k), with values boxed
DictGet(d, k) == IF k \in DOMAIN d THEN d[k] ELSE None
\* d.get(k, default)
DictGetDefault(d, k, default) == IF k \in DOMAIN d THEN d[k] ELSE default
EmptyDict == [x \in {} |-> None]

\* sep.join(list) on strings given as sequences of pieces
RECURSIVE Join(_, _)
Join(list, sep) ==
    IF list = << >> THEN << >>
    ELSE IF Len(list) = 1 THEN list[1]
    ELSE list[1] \o <<sep>> \o Join(Tail(list), sep)

\* s.replace(old, new), piece by piece
Replace(s, old, new) == [i \in DOMAIN s |-> IF s[i] = old THEN new ELSE s[i]]

---------------------------------------------------------------------------
\* The remote service: documents and responses.

Object(members) ==
    [type |-> "object", members |-> members, items |-> << >>, text |-> ""]
Array(items) ==
    [type |-> "array", members |-> EmptyDict, items |-> items, text |-> ""]
Markup(t) ==
    [type |-> "markup", members |-> EmptyDict, items |-> << >>, text |-> t]

\* A response body: the text that writes down a document.  response.text
\* is this str; response.json() decodes it.
Str(doc) == [pytype |-> "str", of |-> doc]

\* requests' Response.json(): the document a JSON text writes down.
JsonDecode(text) == text.of

\* isinstance(data, dict)
IsDict(data) == data.type = "object"

\* The values the service puts in a page.
Tokens == {None, Some(""), Some("END"), Some("t1"), Some("t2")}
ResultLists == {<<"a">>, <<"b", "c">>}

\* The members of a page: NextOffset (absent, null or a string) and
\* Results (absent or a list of records).
PageMembers ==
    { [k \in {"NextOffset", "Results"} |->
          IF k = "NextOffset" THEN t ELSE Some(r)] : t \in Tokens, r \in ResultLists }
    \cup { [k \in {"NextOffset"} |-> t] : t \in Tokens }
    \cup { [k \in {"Results"} |-> Some(r)] : r \in ResultLists }

Pages == { Object(m) : m \in PageMembers }
ErrorPayload == Object([k \in {"Errors"} |-> Some("invalid key")])
KeywordsPayload == Object([k \in {"Domain", "Keywords"} |-> Some("kw")])

ListsJsonDocs == Pages \cup {ErrorPayload, Array(<<"x">>)}
KeywordsJsonDocs == {KeywordsPayload, ErrorPayload, Array(<<"x">>)}
OtherDocs == {Markup("<xml/>"), ErrorPayload}

\* What session.get meets: a 2xx response with a body, a non-2xx response
\* (raise_for_status raises HTTPError) or no response at all
\* (ConnectionError, Timeout).
Ok(body) == [status |-> "ok", body |-> body]
Failure(status) == [status |-> status, body |-> Str(Markup(""))]
Failures == {Failure("HTTPError"), Failure("ConnectionError")}

\* The service answers a json-format request with a JSON text (a body
\* that is no JSON makes response.json() raise, which is outside this
\* model); any other format may be answered with any text, a JSON one
\* included.
ListsResponses(format) ==
    IF format = "json" THEN {Ok(Str(d)) : d \in ListsJsonDocs} \cup Failures
    ELSE {Ok(Str(d)) : d \in OtherDocs} \cup Failures
KeywordsResponses(format) ==
    IF format = "json" THEN {Ok(Str(d)) : d \in KeywordsJsonDocs} \cup Failures
    ELSE {Ok(Str(d)) : d \in OtherDocs} \cup Failures

\* What a call ends with.
Return(v) == [kind |-> "return", exc |-> "", value |-> v]
Raise(e, m) == [kind |-> "raise", exc |-> e, value |-> m]
Yield(v) == [kind |-> "yield", exc |-> "", value |-> v]
NoOutcome == [kind |-> "none", exc |-> "", value |-> None]

\* The result of running code that may talk to the service: what it ends
\* with and the exchanges it made.
Ran(out, sent) == [out |-> out, sent |-> sent]

---------------------------------------------------------------------------
\* BuiltWithListsClient

ApiKey == "key"
ListsBaseUrl == "https://api.builtwith.com/lists12/api"
ListsFormats == {"json", "xml", "txt", "csv", "tsv"}

ListsBuildUrl(format) == <<ListsBaseUrl, ".", format>>

\* ListsMakeRequest without the look for "Errors".
ListsMakeRequest_IgnoresErrors(params, format, resp) ==
    LET req == [url |-> ListsBuildUrl(format), params |-> params,
                timeout |-> RequestTimeout]
        sent == << [req |-> req, resp |-> resp] >>
    IN  IF resp.status # "ok"
        THEN Ran(Raise("BuiltWithAPIError", <<"Request failed: ", resp.status>>), sent)
        ELSE IF format = "json"
        THEN Ran(Return(JsonDecode(resp.body)), sent)
        ELSE Ran(Return(resp.body), sent)

ListsMakeRequest(params, format, resp) ==
    LET req == [url |-> ListsBuildUrl(format), params |-> params,
                timeout |-> RequestTimeout]
        sent == << [req |-> req, resp |-> resp] >>
    IN  IF resp.status # "ok"
        THEN Ran(Raise("BuiltWithAPIError", <<"Request failed: ", resp.status>>), sent)
        ELSE IF format = "json"
        THEN LET data == JsonDecode(resp.body)
             IN  IF IsDict(data) /\ "Errors" \in DOMAIN data.members
                 THEN Ran(Raise("BuiltWithAPIError",
                                <<"API Error: ", data.members["Errors"][1]>>), sent)
                 ELSE Ran(Return(data), sent)
        ELSE Ran(Return(resp.body), sent)

\* The query parameters get_tech_list builds (the SINCE / ALL exclusion is
\* raised in GetTechList).
ListsParams(a, offset) ==
    LET p0 == [k \in {"KEY", "TECH"} |->
                  IF k = "KEY" THEN ApiKey ELSE Replace(a.technology, " ", "-")]
        p1 == IF a.include_meta THEN DictSet(p0, "META", "yes") ELSE p0
        p2 == IF TruthySeq(a.country)
              THEN IF a.country[1].islist
                   THEN DictSet(p1, "COUNTRY", Join(a.country[1].val, ","))
                   ELSE DictSet(p1, "COUNTRY", a.country[1].val)
              ELSE p1
        p3 == IF TruthyStr(offset) THEN DictSet(p2, "OFFSET", offset[1]) ELSE p2
        p4 == IF TruthyStr(a.since) THEN DictSet(p3, "SINCE", a.since[1]) ELSE p3
        p5 == IF a.include_all THEN DictSet(p4, "ALL", "yes") ELSE p4
    IN  p5

\* GetTechList without the exclusion of since and include_all.
GetTechList_NoExclusion(a, offset, format, resp) ==
    ListsMakeRequest(ListsParams(a, offset), format, resp)

GetTechList(a, offset, format, resp) ==
    IF TruthyStr(a.since) /\ a.include_all
    THEN Ran(Raise("ValueError",
                   <<"Cannot use 'since' parameter with 'include_all=True'">>), << >>)
    ELSE ListsMakeRequest(ListsParams(a, offset), format, resp)

\* The arguments of a lists call.
PyStr(pieces) == [islist |-> FALSE, val |-> pieces]
PyList(items) == [islist |-> TRUE, val |-> items]
Countries == {None, Some(PyStr(<<"US">>)), Some(PyStr(<< >>)),
              Some(PyList(<< <<"US">>, <<"CA">> >>)), Some(PyList(<< >>))}
Technologies == {<<"Shopify">>, <<"Shopify", " ", "App">>}
Sinces == {None, Some(""), Some("2024-01-01")}

ListsArgs ==
    [technology : Technologies, include_meta : BOOLEAN, country : Countries,
     since : Sinces, include_all : BOOLEAN]

\* The arguments of iterate_tech_list and get_all_tech_list: those of
\* get_tech_list less offset and format, and max_pages (None or a count).
Caps == {None} \cup {Some(n) : n \in 0..MaxCap}
IterArgs ==
    { [technology |-> a.technology, include_meta |-> a.include_meta,
       country |-> a.country, since |-> a.since, include_all |-> a.include_all,
       max_pages |-> c] :
      a \in { x \in ListsArgs : /\ x.technology = <<"Shopify", " ", "App">>
                                /\ x.include_meta
                                /\ x.country = Some(PyList(<< <<"US">>, <<"CA">> >>)) },
      c \in Caps }

\* The generator of iterate_tech_list.  Calling the function runs none of
\* its body; each next() runs it to the next yield, to its end or to an
\* exception.  A frame is where the body stands and its locals.
NewGen == [state |-> "created", offset |-> None, page_count |-> 0, result |-> None]
Finished(g) == [g EXCEPT !.state = "finished"]

\* What a next() gives: the frame after it, what the consumer gets
\* (a yield, StopIteration as "stop", or an exception) and the exchanges.
Resumed(g, out, sent) == [gen |-> g, out |-> out, sent |-> sent]
Stop == [kind |-> "stop", exc |-> "StopIteration", value |-> None]

\* IterLoopTop with the cap compared by > instead of >=.
IterLoopTop_CapOffByOne(g, a, resp) ==
    IF a.max_pages # None /\ g.page_count > a.max_pages[1]
    THEN Resumed(Finished(g), Stop, << >>)
    ELSE LET r == GetTechList(a, g.offset, "json", resp)
         IN  IF r.out.kind = "raise"
             THEN Resumed(Finished(g), r.out, r.sent)
             ELSE Resumed([g EXCEPT !.state = "suspended",
                                    !.result = Some(r.out.value)],
                          Yield(r.out.value), r.sent)

\* IterLoopTop that fetches again, from the top of the loop, when pulled
\* after a failed fetch.
IterLoopTop_Retries(g, a, resp) ==
    IF a.max_pages # None /\ g.page_count >= a.max_pages[1]
    THEN Resumed(Finished(g), Stop, << >>)
    ELSE LET r == GetTechList(a, g.offset, "json", resp)
         IN  IF r.out.kind = "raise"
             THEN Resumed([g EXCEPT !.state = "created"], r.out, r.sent)
             ELSE Resumed([g EXCEPT !.state = "suspended",
                                    !.result = Some(r.out.value)],
                          Yield(r.out.value), r.sent)

\* IterLoopTop that fetches the page before it looks at the cap.
IterLoopTop_FetchBeforeCap(g, a, resp) ==
    LET r == GetTechList(a, g.offset, "json", resp)
    IN  IF r.out.kind = "raise"
        THEN Resumed(Finished(g), r.out, r.sent)
        ELSE IF a.max_pages # None /\ g.page_count >= a.max_pages[1]
        THEN Resumed(Finished(g), Stop, r.sent)
        ELSE Resumed([g EXCEPT !.state = "suspended",
                               !.result = Some(r.out.value)],
                     Yield(r.out.value), r.sent)

\* From the top of the while loop: the cap, then the fetch and the yield.
IterLoopTop(g, a, resp) ==
    IF a.max_pages # None /\ g.page_count >= a.max_pages[1]
    THEN Resumed(Finished(g), Stop, << >>)
    ELSE LET r == GetTechList(a, g.offset, "json", resp)
         IN  IF r.out.kind = "raise"
             THEN Resumed(Finished(g), r.out, r.sent)
             ELSE Resumed([g EXCEPT !.state = "suspended",
                                    !.result = Some(r.out.value)],
                          Yield(r.out.value), r.sent)

\* IterAfterYield that goes on without taking the page's NextOffset as the
\* next offset.
IterAfterYield_KeepsOffset(g, a, resp) ==
    LET result == g.result[1]
        g1 == [g EXCEPT !.page_count = @ + 1]
    IN  IF ~IsDict(result)
        THEN Resumed(Finished(g1),
                     Raise("AttributeError", <<"'list' object has no attribute 'get'">>),
                     << >>)
        ELSE LET next_offset == DictGet(result.members, "NextOffset")
             IN  IF ~TruthyStr(next_offset) \/ next_offset = Some("END")
                 THEN Resumed(Finished(g1), Stop, << >>)
                 ELSE IterLoopTop(g1, a, resp)

\* After the yield: count the page, read its NextOffset, stop or go on.
IterAfterYield(g, a, resp) ==
    LET result == g.result[1]
        g1 == [g EXCEPT !.page_count = @ + 1]
    IN  IF ~IsDict(result)
        THEN Resumed(Finished(g1),
                     Raise("AttributeError", <<"'list' object has no attribute 'get'">>),
                     << >>)
        ELSE LET next_offset == DictGet(result.members, "NextOffset")
             IN  IF ~TruthyStr(next_offset) \/ next_offset = Some("END")
                 THEN Resumed(Finished(g1), Stop, << >>)
                 ELSE IterLoopTop([g1 EXCEPT !.offset = next_offset], a, resp)

GenNext(g, a, resp) ==
    CASE g.state = "created" -> IterLoopTop(g, a, resp)
      [] g.state = "suspended" -> IterAfterYield(g, a, resp)
      [] g.state = "finished" -> Resumed(g, Stop, << >>)

\* Extend that puts the page's Results before the list.
Extend_Prepends(all_results, page) ==
    DictGetDefault(page.members, "Results", Some(<< >>))[1] \o all_results

\* all_results.extend(page.get('Results', [])) of get_all_tech_list
Extend(all_results, page) ==
    all_results \o DictGetDefault(page.members, "Results", Some(<< >>))[1]

\* datetime.fromtimestamp(epoch_seconds), the local zone being UTC: the
\* day since 1970-01-01 and the second of that day.
FromTimestamp(epoch_seconds) ==
    [pytype |-> "datetime", day |-> epoch_seconds \div SecondsPerDay,
     second |-> epoch_seconds % SecondsPerDay]

ParseEpoch(epoch_seconds) ==
    IF TruthyInt(epoch_seconds) THEN Some(FromTimestamp(epoch_seconds[1])) ELSE None

\* A dict display {k1: v1, k2: v2, ...}: a later pair replaces an earlier
\* one of the same key.
Pair(k, v) == [k |-> k, v |-> v]
DictOf(pairs) ==
    [x \in {pairs[i].k : i \in DOMAIN pairs} |->
        pairs[CHOOSE i \in DOMAIN pairs :
                 /\ pairs[i].k = x
                 /\ \A j \in DOMAIN pairs : j > i => pairs[j].k # x].v]

ParsedPairs(result) ==
    << Pair("domain", DictGet(result, "D")),
       Pair("locations_on_site", DictGetDefault(result, "LOS", Some(<< >>))),
       Pair("first_detected", ParseEpoch(DictGet(result, "FD"))),
       Pair("last_detected", ParseEpoch(DictGet(result, "LD"))),
       Pair("monthly_spend_usd", DictGet(result, "S")),
       Pair("unique_products", DictGet(result, "SKU")),
       Pair("estimated_revenue", DictGet(result, "R")),
       Pair("social_followers", DictGet(result, "F")),
       Pair("employee_count", DictGet(result, "E")),
       Pair("page_rank", DictGet(result, "A")),
       Pair("tranco_rank", DictGet(result, "Q")),
       Pair("majestic_rank", DictGet(result, "M")),
       Pair("umbrella_rank", DictGet(result, "U")) >>

ParseResult(result) ==
    LET parsed == DictOf(ParsedPairs(result))
    IN  IF "META" \in DOMAIN result
        THEN DictSet(parsed, "metadata", result["META"])
        ELSE parsed

\* The records handed to parse_result: with or without the plain fields,
\* with or without META, and FD and LD absent, null or an epoch.
Epochs == {0 - 1, 0, 1, SecondsPerDay - 1, SecondsPerDay, 1700000000}
EpochFields == {None} \cup {Some(e) : e \in Epochs}
PlainRecords ==
    { EmptyDict,
      [k \in {"D", "LOS", "S", "SKU", "R", "F", "E", "A", "Q", "M", "U"} |->
          CASE k = "D" -> Some("example.com")
            [] k = "LOS" -> Some(<<"example.com/shop">>)
            [] OTHER -> Some(7)] }
WithField(d, k, present, v) == IF present THEN DictSet(d, k, v) ELSE d
ResultRecords ==
    { WithField(WithField(WithField(d, "META", meta, Some("Acme")),
                          "FD", hasFD, fd), "LD", hasLD, ld) :
      d \in PlainRecords, meta \in BOOLEAN,
      hasFD \in BOOLEAN, fd \in EpochFields, hasLD \in BOOLEAN, ld \in EpochFields }

---------------------------------------------------------------------------
\* BuiltWithKeywordsClient

KeywordsBaseUrl == "https://api.builtwith.com/kw2/api"
KeywordsFormats == {"json", "xml"}

KeywordsBuildUrl(format) == <<KeywordsBaseUrl, ".", format>>

KeywordsMakeRequest(params, format, resp) ==
    LET req == [url |-> KeywordsBuildUrl(format), params |-> params,
                timeout |-> RequestTimeout]
        sent == << [req |-> req, resp |-> resp] >>
    IN  IF resp.status # "ok"
        THEN Ran(Raise("BuiltWithAPIError", <<"Request failed: ", resp.status>>), sent)
        ELSE IF format = "json"
        THEN LET data == JsonDecode(resp.body)
             IN  IF IsDict(data) /\ "Errors" \in DOMAIN data.members
                 THEN Ran(Raise("BuiltWithAPIError",
                                <<"API Error: ", data.members["Errors"][1]>>), sent)
                 ELSE Ran(Return(data), sent)
        ELSE Ran(Return(resp.body), sent)

\* GetKeywords that refuses a list of 16 domains already.
GetKeywords_LimitOffByOne(domain, format, resp) ==
    IF domain.islist /\ Len(domain.val) >= MaxDomainsPerRequest
    THEN Ran(Raise("ValueError", <<"Maximum 16 domains allowed per request">>), << >>)
    ELSE LET lookup == IF domain.islist THEN Join(domain.val, ",") ELSE domain.val
             params == [k \in {"KEY", "LOOKUP"} |->
                           IF k = "KEY" THEN ApiKey ELSE lookup]
         IN  KeywordsMakeRequest(params, format, resp)

\* get_keywords(domain, format): domain is a str or a list of str.
GetKeywords(domain, format, resp) ==
    IF domain.islist /\ Len(domain.val) > MaxDomainsPerRequest
    THEN Ran(Raise("ValueError", <<"Maximum 16 domains allowed per request">>), << >>)
    ELSE LET lookup == IF domain.islist THEN Join(domain.val, ",") ELSE domain.val
             params == [k \in {"KEY", "LOOKUP"} |->
                           IF k = "KEY" THEN ApiKey ELSE lookup]
         IN  KeywordsMakeRequest(params, format, resp)

\* range(start, stop, step) as the sequence of its values (step # 0).
RECURSIVE Range(_, _, _)
Range(start, stop, step) ==
    IF (step > 0 /\ start < stop) \/ (step < 0 /\ start > stop)
    THEN <<start>> \o Range(start + step, stop, step)
    ELSE << >>

\* Slice that takes one element more: domains[i:i + n + 1].
Slice_OneMore(list, i, n) ==
    SubSeq(list, i + 1, IF i + n + 1 < Len(list) THEN i + n + 1 ELSE Len(list))

\* domains[i:i + n] for 0 <= i and 0 < n
Slice(list, i, n) ==
    SubSeq(list, i + 1, IF i + n < Len(list) THEN i + n ELSE Len(list))

\* One pass of the body of the for loop of get_keywords_batch, at index i.
BatchBody(all_results, domains, batch_size, i, resp) ==
    LET batch == Slice(domains, i, batch_size)
        r == GetKeywords(PyList(batch), "json", resp)
    IN  [call |-> batch, out |-> r.out, sent |-> r.sent,
         all_results |-> IF r.out.kind = "return" /\ IsDict(r.out.value)
                         THEN Append(all_results, r.out.value)
                         ELSE all_results]

\* The domain lists and batch sizes tried.
Domain(i) == <<"d" \o ToString(i), ".com">>
DomainLists ==
    { [i \in 1..n |-> Domain(i)] : n \in 0..MaxListLen }
    \cup { [i \in 1..n |-> Domain(i % 2)] : n \in 0..MaxListLen }
BatchSizes == (0 - 1)..(MaxDomainsPerRequest + BatchSlack)

---------------------------------------------------------------------------
\* The state machine.

NoGen == [state |-> "none", offset |-> None, page_count |-> 0, result |-> None]
NoLoop == [running |-> FALSE, i |-> 0, all_results |-> << >>, calls |-> << >>]
NoArgs == [none |-> TRUE]

Init ==
    /\ op = "none"
    /\ args = NoArgs
    /\ wire = << >>
    /\ outcome = NoOutcome
    /\ gen = NoGen
    /\ delivered = << >>
    /\ pulls = 0
    /\ stops = 0
    /\ loop = NoLoop

\* client.get_tech_list(technology, include_meta, country, offset, since,
\* include_all, format)
CallGetTechList ==
    /\ op = "none"
    /\ \E a \in ListsArgs, offset \in {None, Some(""), Some("t1")},
          format \in ListsFormats :
         \E resp \in ListsResponses(format) :
            LET r == GetTechList(a, offset, format, resp)
            IN  /\ op' = "get_tech_list"
                /\ args' = [a |-> a, offset |-> offset, format |-> format]
                /\ wire' = wire \o r.sent
                /\ outcome' = r.out
    /\ UNCHANGED <<gen, delivered, pulls, stops, loop>>

\* it = client.iterate_tech_list(...): the generator object is made and
\* nothing of the body has run.
CallIterateTechList ==
    /\ op = "none"
    /\ \E a \in IterArgs :
         /\ op' = "iterate_tech_list"
         /\ args' = a
         /\ gen' = NewGen
    /\ UNCHANGED <<wire, outcome, delivered, pulls, stops, loop>>

\* next(it) by the consumer of the generator.
IterNext ==
    /\ op = "iterate_tech_list"
    /\ pulls < MaxPulls
    /\ \E resp \in ListsResponses("json") :
         LET n == GenNext(gen, args, resp)
         IN  /\ gen' = n.gen
             /\ wire' = wire \o n.sent
             /\ outcome' = n.out
             /\ delivered' = IF n.out.kind = "yield"
                             THEN Append(delivered, n.out.value) ELSE delivered
             /\ stops' = IF n.out.kind = "stop" THEN stops + 1 ELSE stops
    /\ pulls' = pulls + 1
    /\ UNCHANGED <<op, args, loop>>

\* client.get_all_tech_list(...): the list is empty and the generator made.
CallGetAllTechList ==
    /\ op = "none"
    /\ \E a \in IterArgs :
         /\ op' = "get_all_tech_list"
         /\ args' = a
         /\ gen' = NewGen
         /\ loop' = [NoLoop EXCEPT !.running = TRUE]
    /\ UNCHANGED <<wire, outcome, delivered, pulls, stops>>

\* One turn of the for loop of get_all_tech_list: the next page is pulled
\* from the generator and its Results are added, or the loop ends and the
\* list is returned, or an exception leaves the function.
GetAllStep ==
    /\ op = "get_all_tech_list"
    /\ loop.running
    /\ pulls < MaxPulls
    /\ \E resp \in ListsResponses("json") :
         LET n == GenNext(gen, args, resp)
         IN  /\ gen' = n.gen
             /\ wire' = wire \o n.sent
             /\ delivered' = IF n.out.kind = "yield"
                             THEN Append(delivered, n.out.value) ELSE delivered
             /\ stops' = IF n.out.kind = "stop" THEN stops + 1 ELSE stops
             /\ CASE n.out.kind = "yield" /\ IsDict(n.out.value) ->
                       /\ loop' = [loop EXCEPT
                                     !.all_results = Extend(@, n.out.value)]
                       /\ outcome' = outcome
                  [] n.out.kind = "yield" /\ ~IsDict(n.out.value) ->
                       /\ loop' = [loop EXCEPT !.running = FALSE]
                       /\ outcome' = Raise("AttributeError",
                                       <<"'list' object has no attribute 'get'">>)
                  [] n.out.kind = "stop" ->
                       /\ loop' = [loop EXCEPT !.running = FALSE]
                       /\ outcome' = Return(loop.all_results)
                  [] n.out.kind = "raise" ->
                       /\ loop' = [loop EXCEPT !.running = FALSE]
                       /\ outcome' = n.out
    /\ pulls' = pulls + 1
    /\ UNCHANGED <<op, args>>

\* client.parse_result(result)
CallParseResult ==
    /\ op = "none"
    /\ \E result \in ResultRecords :
         /\ op' = "parse_result"
         /\ args' = [result |-> result]
         /\ outcome' = Return(ParseResult(result))
    /\ UNCHANGED <<wire, gen, delivered, pulls, stops, loop>>

\* client.get_keywords(domain, format)
CallGetKeywords ==
    /\ op = "none"
    /\ \E islist \in BOOLEAN, l \in DomainLists, format \in KeywordsFormats :
         \E resp \in KeywordsResponses(format) :
            LET domain == IF islist THEN PyList(l) ELSE PyStr(Domain(1))
                r == GetKeywords(domain, format, resp)
            IN  /\ op' = "get_keywords"
                /\ args' = [domain |-> domain, format |-> format]
                /\ wire' = wire \o r.sent
                /\ outcome' = r.out
    /\ UNCHANGED <<gen, delivered, pulls, stops, loop>>

\* client.get_keywords_batch(domains, batch_size), up to the for loop: the
\* check of batch_size, and range(0, len(domains), batch_size), which
\* raises ValueError for a step of zero and is empty for a negative one.
CallGetKeywordsBatch ==
    /\ op = "none"
    /\ \E domains \in DomainLists, batch_size \in BatchSizes :
         /\ op' = "get_keywords_batch"
         /\ args' = [domains |-> domains, batch_size |-> batch_size]
         /\ IF batch_size > MaxDomainsPerRequest
            THEN /\ outcome' = Raise("ValueError", <<"Maximum batch size is 16 domains">>)
                 /\ loop' = NoLoop
            ELSE IF batch_size = 0
            THEN /\ outcome' = Raise("ValueError", <<"range() arg 3 must not be zero">>)
                 /\ loop' = NoLoop
            ELSE IF Range(0, Len(domains), batch_size) = << >>
            THEN /\ outcome' = Return(<< >>)
                 /\ loop' = NoLoop
            ELSE /\ Len(Range(0, Len(domains), batch_size)) <= MaxCalls
                 /\ outcome' = outcome
                 /\ loop' = [NoLoop EXCEPT !.running = TRUE]
    /\ UNCHANGED <<wire, gen, delivered, pulls, stops>>

\* One turn of the for loop of get_keywords_batch; after the last one the
\* list is returned.
BatchStep ==
    /\ op = "get_keywords_batch"
    /\ loop.running
    /\ \E resp \in KeywordsResponses("json") :
         LET b == BatchBody(loop.all_results, args.domains, args.batch_size,
                            loop.i, resp)
             last == loop.i + args.batch_size >= Len(args.domains)
         IN  /\ wire' = wire \o b.sent
             /\ IF b.out.kind = "raise"
                THEN /\ outcome' = b.out
                     /\ loop' = [loop EXCEPT !.running = FALSE,
                                             !.calls = Append(@, b.call)]
                ELSE /\ outcome' = IF last THEN Return(b.all_results) ELSE outcome
                     /\ loop' = [running |-> ~last, i |-> loop.i + args.batch_size,
                                 all_results |-> b.all_results,
                                 calls |-> Append(loop.calls, b.call)]
    /\ UNCHANGED <<op, args, gen, delivered, pulls, stops>>

Next ==
    \/ CallGetTechList
    \/ CallIterateTechList
    \/ IterNext
    \/ CallGetAllTechList
    \/ GetAllStep
    \/ CallParseResult
    \/ CallGetKeywords
    \/ CallGetKeywordsBatch
    \/ BatchStep

Spec == Init /\ [][Next]_vars

---------------------------------------------------------------------------
\* Properties.

Iterating == op = "iterate_tech_list"
Draining == op = "get_all_tech_list"
Batching == op = "get_keywords_batch"

\* The document a 2xx exchange carried.
DocOf(x) == x.resp.body.of
\* An exchange that makes _make_request raise BuiltWithAPIError on a
\* json-format call: a transport failure or an Errors payload.
FailedExchange(x) ==
    \/ x.resp.status # "ok"
    \/ IsDict(DocOf(x)) /\ "Errors" \in DOMAIN DocOf(x).members
FailedWire == wire # << >> /\ FailedExchange(wire[Len(wire)])

\* A page whose continuation token is absent or "END".
LastPage(page) ==
    \/ "NextOffset" \notin DOMAIN page.members
    \/ page.members["NextOffset"] = Some("END")

RECURSIVE Flatten(_)
Flatten(lists) ==
    IF lists = << >> THEN << >> ELSE lists[1] \o Flatten(Tail(lists))

\* The Results of a page (none when the key is absent).
ResultsOf(page) ==
    IF "Results" \in DOMAIN page.members THEN page.members["Results"][1] ELSE << >>

\* ceil(l / b) for b # 0
CeilDiv(l, b) ==
    IF b > 0 THEN (l + b - 1) \div b ELSE 0 - (l \div (0 - b))

\* C1: a get_tech_list call with a since filter and include_all=True,
\* whatever its other arguments, raises ValueError and has issued no HTTP
\* request; so does the first fetch of an iteration with such arguments
\* (an iteration with max_pages = 0 fetches nothing).
\* (since is set when it is a non-empty string, which is what the code
\* tests: an empty string is no date filter and sends no SINCE.)
C1_SinceWithIncludeAllFails ==
    /\ (op = "get_tech_list" /\ TruthyStr(args.a.since) /\ args.a.include_all)
         => /\ outcome.kind = "raise"
            /\ outcome.exc = "ValueError"
            /\ wire = << >>
    /\ ((Iterating \/ Draining) /\ TruthyStr(args.since) /\ args.include_all)
         => /\ wire = << >>
            /\ delivered = << >>
            /\ (pulls = 1 /\ args.max_pages # Some(0)) => outcome.exc = "ValueError"

C1_Witness ==
    /\ op = "get_tech_list"
    /\ args.a.since = Some("2024-01-01")
    /\ args.a.include_all
    /\ args.a.include_meta
    /\ args.offset = Some("t1")
    /\ args.format = "csv"
    /\ outcome.exc = "ValueError"
    /\ wire = << >>

\* C2 as claimed: for every batch size B <= 16, a get_keywords_batch run
\* that returns has issued exactly ceil(L/B) get_keywords calls, each of at
\* most B domains, whose concatenation in call order is the input list.
C2_AnyBatchSizeUpTo16 ==
    (/\ Batching
     /\ outcome.kind = "return"
     /\ args.batch_size <= MaxDomainsPerRequest)
      => /\ Len(loop.calls) = CeilDiv(Len(args.domains), args.batch_size)
         /\ Len(wire) = Len(loop.calls)
         /\ \A c \in DOMAIN loop.calls : Len(loop.calls[c]) <= args.batch_size
         /\ Flatten(loop.calls) = args.domains

\* C2 as amended: the same for 1 <= B <= 16; at every point of such a run
\* the calls made are the batches of the domains before index i, one HTTP
\* request each; a batch size of 0 raises ValueError and a negative one
\* returns the empty list, either without any call.
C2_PositiveBatchSizeUpTo16 ==
    /\ (Batching /\ args.batch_size >= 1 /\ args.batch_size <= MaxDomainsPerRequest)
         => /\ \A c \in DOMAIN loop.calls :
                  /\ Len(loop.calls[c]) <= args.batch_size
                  /\ Len(loop.calls[c]) >= 1
            /\ Len(wire) = Len(loop.calls)
            /\ \A c \in DOMAIN loop.calls :
                  wire[c].req.params["LOOKUP"] = Join(loop.calls[c], ",")
            /\ Len(loop.calls) <= CeilDiv(Len(args.domains), args.batch_size)
            /\ \E n \in 0..Len(args.domains) :
                  Flatten(loop.calls) = SubSeq(args.domains, 1, n)
            /\ outcome.kind = "return"
                 => /\ Len(loop.calls) = CeilDiv(Len(args.domains), args.batch_size)
                    /\ Flatten(loop.calls) = args.domains
    /\ (Batching /\ args.batch_size < 1)
         => /\ wire = << >>
            /\ loop.calls = << >>
            /\ IF args.batch_size = 0
               THEN outcome.exc = "ValueError"
               ELSE outcome = Return(<< >>)

C2_Witness ==
    /\ Batching
    /\ outcome.kind = "return"
    /\ args.batch_size = 7
    /\ Len(args.domains) = 18
    /\ Len(loop.calls) = 3
    /\ Len(loop.calls[3]) = 4
    /\ Len(wire) = 3

\* C3: in an iteration no page but the last yielded one has an absent or
\* "END" NextOffset, and the pull that follows such a page ends the
\* iteration without a request; with max_pages = N at most N pages are
\* yielded (and at most N requests issued), whatever the tokens.
C3_IterationStops ==
    Iterating =>
      /\ \A i \in DOMAIN delivered :
            (IsDict(delivered[i]) /\ LastPage(delivered[i])) => i = Len(delivered)
      /\ (/\ delivered # << >>
          /\ IsDict(delivered[Len(delivered)])
          /\ LastPage(delivered[Len(delivered)])
          /\ pulls > Len(delivered))
           => /\ gen.state = "finished"
              /\ outcome.kind = "stop"
              /\ stops = pulls - Len(delivered)
              /\ Len(wire) = Len(delivered)
      /\ args.max_pages # None
           => /\ Len(delivered) <= args.max_pages[1]
              /\ Len(wire) <= args.max_pages[1]
              /\ args.max_pages[1] <= 0 => delivered = << >>

C3_Witness ==
    /\ Iterating
    /\ args.max_pages = None
    /\ Len(delivered) = 2
    /\ "NextOffset" \in DOMAIN delivered[2].members
    /\ delivered[2].members["NextOffset"] = Some("END")
    /\ pulls = 3
    /\ outcome.kind = "stop"

\* C4: the list get_all_tech_list returns is the concatenation, in order,
\* of the Results of the pages its iterate_tech_list generator yielded.
C4_AllIsConcatenation ==
    Draining =>
      /\ outcome.kind = "return"
           => /\ outcome.value = Flatten([i \in DOMAIN delivered |->
                                             ResultsOf(delivered[i])])
              /\ gen.state = "finished"
      /\ loop.running
           => loop.all_results = Flatten([i \in DOMAIN delivered |->
                                             ResultsOf(delivered[i])])

C4_Witness ==
    /\ Draining
    /\ outcome.kind = "return"
    /\ Len(delivered) = 2
    /\ ResultsOf(delivered[1]) = <<"b", "c">>
    /\ ResultsOf(delivered[2]) = <<"a">>
    /\ outcome.value = <<"b", "c", "a">>

\* C5: a fetch that fails with BuiltWithAPIError ends the iteration or the
\* batch loop at once: the error is what the caller gets, the failed
\* exchange is the last one of the session (no retry, no later request),
\* and the pages yielded before it are those of the exchanges before it.
C5_FailureAborts ==
    /\ (Iterating \/ Draining \/ Batching)
         => \A i \in DOMAIN wire : FailedExchange(wire[i]) => i = Len(wire)
    /\ ((Iterating \/ Draining) /\ FailedWire)
         => /\ gen.state = "finished"
            /\ Len(delivered) = Len(wire) - 1
            /\ \A i \in DOMAIN delivered : delivered[i] = DocOf(wire[i])
    /\ (Iterating /\ FailedWire /\ pulls = Len(wire))
         => /\ outcome.kind = "raise"
            /\ outcome.exc = "BuiltWithAPIError"
    /\ (Draining /\ FailedWire)
         => /\ ~loop.running
            /\ outcome.kind = "raise"
            /\ outcome.exc = "BuiltWithAPIError"
    /\ (Batching /\ FailedWire)
         => /\ ~loop.running
            /\ outcome.kind = "raise"
            /\ outcome.exc = "BuiltWithAPIError"
            /\ Len(loop.calls) = Len(wire)

C5_Witness ==
    /\ Iterating
    /\ Len(wire) = 3
    /\ wire[3].resp.status = "ConnectionError"
    /\ Len(delivered) = 2
    /\ outcome.exc = "BuiltWithAPIError"
    /\ gen.state = "finished"

\* C6: a 2xx response whose body is a JSON object with an "Errors" member
\* makes a json-format call raise BuiltWithAPIError carrying that member;
\* a call of any other format returns that body, the text itself, and
\* raises nothing.  Both clients.
C6_ErrorsPayload ==
    (/\ op \in {"get_tech_list", "get_keywords"}
     /\ wire # << >>
     /\ wire[1].resp.status = "ok"
     /\ IsDict(DocOf(wire[1]))
     /\ "Errors" \in DOMAIN DocOf(wire[1]).members)
      => IF args.format = "json"
         THEN /\ outcome.kind = "raise"
              /\ outcome.exc = "BuiltWithAPIError"
              /\ outcome.value[2] = DocOf(wire[1]).members["Errors"][1]
         ELSE /\ outcome.kind = "return"
              /\ outcome.value = wire[1].resp.body

C6_Witness ==
    /\ op = "get_keywords"
    /\ args.format = "xml"
    /\ wire # << >>
    /\ wire[1].resp.body = Str(ErrorPayload)
    /\ outcome = Return(Str(ErrorPayload))

\* date is the value parse_result must give for the epoch field k of result.
DateAgrees(result, k, date) ==
    IF k \notin DOMAIN result \/ result[k] = None
    THEN date = None
    ELSE /\ date # None
         /\ date[1].day * SecondsPerDay + date[1].second = result[k][1]
         /\ date[1].second \in 0..(SecondsPerDay - 1)

\* C7: parse_result maps an FD / LD that is None or absent to None and
\* every integer epoch to the date and time of that epoch; its thirteen
\* named fields are distinct keys of the output.
C7_EpochToDate ==
    op = "parse_result" =>
      /\ DateAgrees(args.result, "FD", outcome.value["first_detected"])
      /\ DateAgrees(args.result, "LD", outcome.value["last_detected"])
      /\ Cardinality(DOMAIN outcome.value \ {"metadata"}) = Len(ParsedPairs(args.result))

\* C8: get_keywords with a list of more than 16 domains raises ValueError
\* and issues no HTTP request; a list of at most 16 or a single domain
\* string raises no ValueError and issues its one request.
C8_DomainLimit ==
    op = "get_keywords" =>
      IF args.domain.islist /\ Len(args.domain.val) > MaxDomainsPerRequest
      THEN /\ outcome.kind = "raise"
           /\ outcome.exc = "ValueError"
           /\ wire = << >>
      ELSE /\ outcome.exc # "ValueError"
           /\ Len(wire) = 1
           /\ wire[1].req.params["LOOKUP"] =
                 IF args.domain.islist THEN Join(args.domain.val, ",")
                 ELSE args.domain.val

C8_Witness ==
    /\ op = "get_keywords"
    /\ args.domain.islist
    /\ Len(args.domain.val) = MaxDomainsPerRequest + 1
    /\ outcome.exc = "ValueError"
    /\ wire = << >>

\* C9: the generator fetches only when pulled and never ahead: no request
\* before the first pull, never more requests than pulls, and at every
\* point the requests issued are the pages handed to the consumer plus
\* the one fetch that failed, if one did; so a consumer that stops after
\* k pages has caused k requests, and max_pages = 0 causes none.
C9_NoLookAhead ==
    Iterating =>
      /\ pulls = 0 => wire = << >>
      /\ Len(wire) <= pulls
      /\ Len(wire) = Len(delivered) + (IF FailedWire THEN 1 ELSE 0)
      /\ Len(wire) + stops <= pulls
      /\ args.max_pages = Some(0) => wire = << >>

C9_Witness ==
    /\ Iterating
    /\ pulls = 2
    /\ Len(delivered) = 2
    /\ Len(wire) = 2
    /\ gen.state = "suspended"
    /\ DictGet(delivered[2].members, "NextOffset") = Some("t1")

\* The dict d less its key k.
Without(d, k) == [x \in (DOMAIN d) \ {k} |-> d[x]]

\* C10: the first request of an iteration carries no OFFSET; every later
\* one carries the NextOffset of the page yielded just before it, which
\* is the response of the request before it; the other parameters and the
\* URL are those of the first request.
C10_OffsetChain ==
    (Iterating \/ Draining) =>
      /\ Len(wire) <= Len(delivered) + 1
      /\ \A i \in DOMAIN wire :
            /\ i = 1 => "OFFSET" \notin DOMAIN wire[i].req.params
            /\ i > 1 => /\ "OFFSET" \in DOMAIN wire[i].req.params
                        /\ delivered[i - 1] = DocOf(wire[i - 1])
                        /\ Some(wire[i].req.params["OFFSET"]) =
                              delivered[i - 1].members["NextOffset"]
            /\ Without(wire[i].req.params, "OFFSET") = wire[1].req.params
            /\ wire[i].req.url = wire[1].req.url
            /\ wire[i].req.params["TECH"] = Replace(args.technology, " ", "-")

C10_Witness ==
    /\ Iterating
    /\ Len(wire) = 3
    /\ wire[2].req.params["OFFSET"] = "t1"
    /\ wire[3].req.params["OFFSET"] = "t2"
    /\ Len(delivered) = 3

=============================================================================
